---- MODULE Spec2Model ----
(***************************************************************************)
(* A model of src/accessors.ts of solidity-docgen: the registry of field   *)
(* accessors over documentation items (nodes of the Solidity AST), the     *)
(* parameter merger getParams and the decorator wrapWithAccessors.         *)
(*                                                                         *)
(* Representation.                                                         *)
(*  - A JavaScript string that is built, split or matched at its ends      *)
(*    (names, function kinds, type strings, node types, NatSpec            *)
(*    descriptions) is a sequence of one-character strings, so that        *)
(*    concatenation, join, startsWith, endsWith and the regular            *)
(*    expressions of the `type' accessor are computed, not assumed.        *)
(*  - An enumeration value that is only compared and handed on             *)
(*    (visibility, mutability) is a TLA+ string.                           *)
(*  - A value that may be undefined is Undefined or Def(v).                *)
(*  - An AST node is a record with the fields the accessors read.          *)
(***************************************************************************)
EXTENDS Naturals, Sequences, FiniteSets

VARIABLES item, called, result, formals, natspecArg

vars == <<item, called, result, formals, natspecArg>>

-----------------------------------------------------------------------------
(* Bounds of the enumerated inputs.                                        *)

\* parameters of a function, event, error or modifier item
MaxParams == 2
\* modifier invocations attached to a function item
MaxMods == 2
\* members (item.nodes) of a contract item
MaxMembers == 2
\* name segments concatenated into a contract name
MaxSegs == 3
\* formal parameters handed to getParams directly
MaxFormals == 2
\* @param entries of the NatSpec record handed to getParams directly
MaxTags == 2

-----------------------------------------------------------------------------
(* undefined and defined values                                            *)

Undefined == [def |-> FALSE]

Def(v) == [def |-> TRUE, val |-> v]

\* JavaScript truthiness of a possibly undefined value: undefined and the
\* empty string are falsy, every array (the empty one too) and every object
\* is truthy.
TruthyEnum(x) == x.def /\ x.val # ""

TruthyChars(x) == x.def /\ x.val # <<>>

TruthyObject(x) == x.def

\* x == 'literal' on a possibly undefined value
Is(x, lit) == x.def /\ x.val = lit

-----------------------------------------------------------------------------
(* string literals of the source, as character sequences                   *)

ContractDefinition == <<"C", "o", "n", "t", "r", "a", "c", "t", "D", "e", "f", "i", "n", "i", "t", "i", "o", "n">>
FunctionDefinition == <<"F", "u", "n", "c", "t", "i", "o", "n", "D", "e", "f", "i", "n", "i", "t", "i", "o", "n">>
EventDefinition == <<"E", "v", "e", "n", "t", "D", "e", "f", "i", "n", "i", "t", "i", "o", "n">>
ErrorDefinition == <<"E", "r", "r", "o", "r", "D", "e", "f", "i", "n", "i", "t", "i", "o", "n">>
ModifierDefinition == <<"M", "o", "d", "i", "f", "i", "e", "r", "D", "e", "f", "i", "n", "i", "t", "i", "o", "n">>
VariableDeclaration == <<"V", "a", "r", "i", "a", "b", "l", "e", "D", "e", "c", "l", "a", "r", "a", "t", "i", "o", "n">>
ElementaryTypeName == <<"E", "l", "e", "m", "e", "n", "t", "a", "r", "y", "T", "y", "p", "e", "N", "a", "m", "e">>
UserDefinedTypeName == <<"U", "s", "e", "r", "D", "e", "f", "i", "n", "e", "d", "T", "y", "p", "e", "N", "a", "m", "e">>
S_Definition == <<"D", "e", "f", "i", "n", "i", "t", "i", "o", "n">>
S_Declaration == <<"D", "e", "c", "l", "a", "r", "a", "t", "i", "o", "n">>
S_function == <<"f", "u", "n", "c", "t", "i", "o", "n">>
S_Test == <<"T", "e", "s", "t">>
S_Mock == <<"M", "o", "c", "k">>

\* the other function kinds of the AST, and the strings of the inputs
S_constructor == <<"c", "o", "n", "s", "t", "r", "u", "c", "t", "o", "r">>
S_fallback == <<"f", "a", "l", "l", "b", "a", "c", "k">>
S_receive == <<"r", "e", "c", "e", "i", "v", "e">>
S_freeFunction == <<"f", "r", "e", "e", "F", "u", "n", "c", "t", "i", "o", "n">>
S_test == <<"t", "e", "s", "t">>
S_Token == <<"T", "o", "k", "e", "n">>
S_able == <<"a", "b", "l", "e">>
S_transfer == <<"t", "r", "a", "n", "s", "f", "e", "r">>
S_add == <<"a", "d", "d">>
S_address == <<"a", "d", "d", "r", "e", "s", "s">>
S_uint256 == <<"u", "i", "n", "t", "2", "5", "6">>
S_IERC20 == <<"c", "o", "n", "t", "r", "a", "c", "t", " ", "I", "E", "R", "C", "2", "0">>
S_to == <<"t", "o">>
S_amount == <<"a", "m", "o", "u", "n", "t">>
S_onlyOwner == <<"o", "n", "l", "y", "O", "w", "n", "e", "r">>
S_lock == <<"l", "o", "c", "k">>
S_d1 == <<"d", "1">>
S_d2 == <<"d", "2">>

UpperChars == {"A", "B", "C", "D", "E", "F", "G", "H", "I", "J", "K", "L", "M", "N", "O", "P", "Q", "R", "S", "T", "U", "V", "W", "X", "Y", "Z"}
LowerChars == {"a", "b", "c", "d", "e", "f", "g", "h", "i", "j", "k", "l", "m", "n", "o", "p", "q", "r", "s", "t", "u", "v", "w", "x", "y", "z"}
DigitChars == {"0", "1", "2", "3", "4", "5", "6", "7", "8", "9"}

\* the class \w of a JavaScript regular expression
WordChars == UpperChars \cup LowerChars \cup DigitChars \cup {"_"}

-----------------------------------------------------------------------------
(* String.prototype and Array.prototype functions the accessors use.       *)
(* Array.prototype.map is written [i \in 1..Len(a) |-> f(a[i])], filter is  *)
(* SelectSeq.                                                              *)

startsWith(s, p) == Len(s) >= Len(p) /\ SubSeq(s, 1, Len(p)) = p

endsWith(s, p) == Len(s) >= Len(p) /\ SubSeq(s, Len(s) - Len(p) + 1, Len(s)) = p

\* Array.prototype.join: the elements in order with sep between neighbours;
\* an undefined element contributes the empty string.
RECURSIVE join(_, _)
join(arr, sep) ==
  IF arr = <<>> THEN <<>>
  ELSE LET first == IF Head(arr).def THEN Head(arr).val ELSE <<>>
       IN IF Len(arr) = 1 THEN first
          ELSE first \o sep \o join(Tail(arr), sep)

-----------------------------------------------------------------------------
(* AST nodes (solidity-ast), with the fields the accessors read            *)

\* A doc-comment tag of a node's documentation.
Tag(tag, nm, description) == [tag |-> tag, name |-> nm, description |-> description]

\* A TypeName node: elementary (address, uint256) or user defined.
TypeNameNode(nodeType, nm, typeString) ==
  [nodeType |-> nodeType, name |-> nm, typeDescriptions |-> [typeString |-> typeString]]

\* A VariableDeclaration: a state variable, a parameter or a return value.
Variable(nm, visibility, mutability, stateVariable, tn, typeString) ==
  [nodeType |-> VariableDeclaration, name |-> nm, visibility |-> visibility,
   mutability |-> mutability, stateVariable |-> stateVariable, typeName |-> tn,
   typeDescriptions |-> [typeString |-> typeString], documentation |-> Undefined]

ParameterList(ps) == [parameters |-> ps]

ModifierInvocation(nm) == [modifierName |-> [name |-> nm]]

Function(kind, nm, visibility, stateMutability, virt, mods, ps, rets, doc) ==
  [nodeType |-> FunctionDefinition, kind |-> kind, name |-> nm,
   visibility |-> visibility, stateMutability |-> stateMutability,
   virtual |-> virt, modifiers |-> mods, parameters |-> ParameterList(ps),
   returnParameters |-> ParameterList(rets), documentation |-> doc]

Event(nm, ps, doc) ==
  [nodeType |-> EventDefinition, name |-> nm, parameters |-> ParameterList(ps),
   documentation |-> doc]

Error(nm, ps, doc) ==
  [nodeType |-> ErrorDefinition, name |-> nm, parameters |-> ParameterList(ps),
   documentation |-> doc]

Modifier(nm, ps, doc) ==
  [nodeType |-> ModifierDefinition, name |-> nm, parameters |-> ParameterList(ps),
   documentation |-> doc]

Contract(nm, nodes, doc) ==
  [nodeType |-> ContractDefinition, name |-> nm, nodes |-> nodes,
   documentation |-> doc]

-----------------------------------------------------------------------------
(* solidity-ast/utils                                                      *)

\* The child nodes findAll walks into, in source order.
Children(node) ==
  IF node.nodeType = ContractDefinition THEN node.nodes
  ELSE IF node.nodeType = FunctionDefinition
       THEN node.parameters.parameters \o node.returnParameters.parameters
  ELSE IF node.nodeType \in {EventDefinition, ErrorDefinition, ModifierDefinition}
       THEN node.parameters.parameters
  ELSE <<>>

\* findAll(nodeType, node): the nodes of that type in the subtree of node,
\* the node itself included, in pre-order (source order).
RECURSIVE findAll(_, _)
RECURSIVE findAllIn(_, _)
findAll(nodeType, node) ==
  (IF node.nodeType = nodeType THEN <<node>> ELSE <<>>)
    \o findAllIn(nodeType, Children(node))

findAllIn(nodeType, nodes) ==
  IF nodes = <<>> THEN <<>>
  ELSE findAll(nodeType, Head(nodes)) \o findAllIn(nodeType, Tail(nodes))

\* isNodeType(nodeType), the predicate handed to Array.prototype.filter
isNodeType(nodeType, node) == node.nodeType = nodeType

-----------------------------------------------------------------------------
(* ./utils/natspec and ./utils/map-values                                  *)

\* parseNatspec(item): the record of the item's doc comment. Without @param
\* tags the record has no params; otherwise params lists them in order.
parseNatspec(it) ==
  LET isParam(t) == t.tag = "param"
      entry(t) == [name |-> t.name, description |-> t.description]
      tags == IF it.documentation.def THEN it.documentation.val ELSE <<>>
      ps == SelectSeq(tags, isParam)
  IN [params |-> IF ps = <<>> THEN Undefined
                 ELSE Def([i \in 1..Len(ps) |-> entry(ps[i])])]

-----------------------------------------------------------------------------
(* getParams and the accessors                                             *)

\* A getParams that takes the last NatSpec entry of the name, not the first.
getParamsLastMatch(ps, ns) ==
  LET view(p) ==
        LET hits == IF ns.params.def
                    THEN {i \in 1..Len(ns.params.val) : ns.params.val[i].name = p.name}
                    ELSE {}
        IN [name |-> p.name,
            type |-> p.typeDescriptions.typeString,
            natspec |-> IF hits = {} THEN Undefined
                        ELSE Def(ns.params.val[CHOOSE i \in hits : \A j \in hits : j <= i].description)]
  IN [i \in 1..Len(ps.parameters) |-> view(ps.parameters[i])]

\* params.parameters.map(p => ...); natspec.params?.find(q => p.name === q.name)
\* is the first entry of that name, or undefined.
getParams(ps, ns) ==
  LET view(p) ==
        LET hits == IF ns.params.def
                    THEN {i \in 1..Len(ns.params.val) : p.name = ns.params.val[i].name}
                    ELSE {}
        IN [name |-> p.name,
            type |-> p.typeDescriptions.typeString,
            natspec |-> IF hits = {} THEN Undefined
                        ELSE Def(ns.params.val[CHOOSE i \in hits : \A j \in hits : i <= j].description)]
  IN [i \in 1..Len(ps.parameters) |-> view(ps.parameters[i])]

\* .replace(/(Definition|Declaration)$/, '')
stripSuffix(s) ==
  IF endsWith(s, S_Definition) THEN SubSeq(s, 1, Len(s) - Len(S_Definition))
  ELSE IF endsWith(s, S_Declaration) THEN SubSeq(s, 1, Len(s) - Len(S_Declaration))
  ELSE s

\* .replace(/(\w)([A-Z])/g, '$1 $2'): matches are taken left to right and do
\* not overlap.
RECURSIVE spaceCapitals(_)
spaceCapitals(s) ==
  IF Len(s) < 2 THEN s
  ELSE IF s[1] \in WordChars /\ s[2] \in UpperChars
       THEN <<s[1], " ", s[2]>> \o spaceCapitals(SubSeq(s, 3, Len(s)))
       ELSE <<s[1]>> \o spaceCapitals(Tail(s))

type(it) == Def(spaceCapitals(stripSuffix(it.nodeType)))

natspec(it) == Def(parseNatspec(it))

name(it) ==
  IF it.nodeType = FunctionDefinition
  THEN (IF it.kind = S_function THEN Def(it.name) ELSE Def(it.kind))
  ELSE Def(it.name)

visibility(it) ==
  IF it.nodeType = FunctionDefinition \/ it.nodeType = VariableDeclaration
  THEN (IF TruthyEnum(it.visibility) THEN it.visibility ELSE Undefined)
  ELSE Undefined

typeName(it) ==
  IF it.nodeType = VariableDeclaration
  THEN IF TruthyObject(it.typeName)
       THEN IF it.typeName.val.nodeType = ElementaryTypeName
            THEN Def(it.typeName.val.name)
            ELSE IF TruthyChars(it.typeName.val.typeDescriptions.typeString)
                 THEN it.typeName.val.typeDescriptions.typeString
                 ELSE Undefined
       ELSE Undefined
  ELSE Undefined

\* A stateMutability that reports the default values too.
stateMutabilityWithDefaults(it) ==
  IF it.nodeType = FunctionDefinition
  THEN (IF TruthyEnum(it.stateMutability) THEN it.stateMutability ELSE Undefined)
  ELSE IF it.nodeType = VariableDeclaration
  THEN (IF TruthyEnum(it.mutability) THEN it.mutability ELSE Undefined)
  ELSE Undefined

stateMutability(it) ==
  IF it.nodeType = FunctionDefinition
  THEN IF Is(it.stateMutability, "nonpayable") THEN Undefined
       ELSE IF TruthyEnum(it.stateMutability) THEN it.stateMutability ELSE Undefined
  ELSE IF it.nodeType = VariableDeclaration
  THEN IF Is(it.mutability, "mutable") THEN Undefined
       ELSE IF TruthyEnum(it.mutability) THEN it.mutability ELSE Undefined
  ELSE Undefined

virtual(it) ==
  IF it.nodeType = FunctionDefinition
  THEN (IF it.virtual THEN Def("virtual") ELSE Undefined)
  ELSE Undefined

withModifiers(it) ==
  LET modifierName(x) == Def(x.modifierName.name)
  IN IF it.nodeType = FunctionDefinition
     THEN IF TruthyObject(it.modifiers)
          THEN Def(join([i \in 1..Len(it.modifiers.val) |-> modifierName(it.modifiers.val[i])],
                        <<",", " ">>))
          ELSE Undefined
     ELSE Undefined

\* a.typeName?.typeDescriptions.typeString
paramTypeString(a) ==
  IF a.typeName.def THEN a.typeName.val.typeDescriptions.typeString ELSE Undefined

signatureOf(it) ==
  Def(name(it).val \o <<"(">>
        \o join([i \in 1..Len(it.parameters.parameters) |->
                    paramTypeString(it.parameters.parameters[i])], <<",">>)
        \o <<")">>)

signature(it) ==
  IF it.nodeType = ContractDefinition THEN Undefined
  ELSE IF it.nodeType = FunctionDefinition THEN signatureOf(it)
  ELSE IF it.nodeType = EventDefinition THEN signatureOf(it)
  ELSE Undefined

params(it) ==
  IF it.nodeType = FunctionDefinition \/ it.nodeType = EventDefinition
  THEN Def(getParams(it.parameters, natspec(it).val))
  ELSE Undefined

returns(it) ==
  IF it.nodeType = FunctionDefinition
  THEN Def(getParams(it.returnParameters, natspec(it).val))
  ELSE Undefined

functions(it) == Def(findAll(FunctionDefinition, it))

events(it) == Def(findAll(EventDefinition, it))

modifiers(it) == Def(findAll(ModifierDefinition, it))

errors(it) == Def(findAll(ErrorDefinition, it))

isVariableDeclaration(n) == isNodeType(VariableDeclaration, n)

isStateVariable(v) == v.stateVariable

isPublic(v) == Is(v.visibility, "public")

isPublicOrExternal(x) == Is(x.visibility, "public") \/ Is(x.visibility, "external")

\* A variables that searches the subtree as the other collectors do.
variablesOfSubtree(it) ==
  Def(SelectSeq(findAll(VariableDeclaration, it), isStateVariable))

variables(it) ==
  IF it.nodeType = ContractDefinition
  THEN Def(SelectSeq(SelectSeq(it.nodes, isVariableDeclaration), isStateVariable))
  ELSE Undefined

\* A notTest that looks for Test and Mock anywhere in the name.
includes(s, p) == \E i \in 1..(Len(s) + 1) : startsWith(SubSeq(s, i, Len(s)), p)

notTestAnywhere(it) ==
  IF it.nodeType # ContractDefinition THEN Def(TRUE)
  ELSE Def(~(includes(it.name, S_Test) \/ includes(it.name, S_Mock)))

notTest(it) ==
  IF it.nodeType # ContractDefinition THEN Def(TRUE)
  ELSE Def(~(\/ endsWith(it.name, S_Test)
             \/ startsWith(it.name, S_Test)
             \/ endsWith(it.name, S_Mock)
             \/ startsWith(it.name, S_Mock)))

publicVariables(it) ==
  IF it.nodeType = ContractDefinition
  THEN Def(SelectSeq(SelectSeq(SelectSeq(it.nodes, isVariableDeclaration), isStateVariable),
                  isPublic))
  ELSE Undefined

publicExternalFunctions(it) ==
  Def(SelectSeq(findAll(FunctionDefinition, it), isPublicOrExternal))

\* A hasPublicMembers that does not count events.
hasPublicMembersWithoutEvents(it) ==
  IF it.nodeType # ContractDefinition THEN Def(FALSE)
  ELSE IF Len(SelectSeq(SelectSeq(SelectSeq(it.nodes, isVariableDeclaration), isStateVariable),
                     isPublic)) > 0
       THEN Def(TRUE)
  ELSE IF Len(SelectSeq(findAll(FunctionDefinition, it), isPublicOrExternal)) > 0
       THEN Def(TRUE)
  ELSE Def(FALSE)

hasPublicMembers(it) ==
  IF it.nodeType # ContractDefinition THEN Def(FALSE)
  ELSE IF Len(SelectSeq(SelectSeq(SelectSeq(it.nodes, isVariableDeclaration), isStateVariable),
                     isPublic)) > 0
       THEN Def(TRUE)
  ELSE IF Len(findAll(EventDefinition, it)) > 0 THEN Def(TRUE)
  ELSE IF Len(SelectSeq(findAll(FunctionDefinition, it), isPublicOrExternal)) > 0
       THEN Def(TRUE)
  ELSE Def(FALSE)

\* The keys of the accessors object, and the accessor under each key.
AccessorKeys ==
  {"type", "natspec", "name", "visibility", "typeName", "stateMutability",
   "virtual", "withModifiers", "signature", "params", "returns", "functions",
   "events", "modifiers", "errors", "variables", "notTest", "hasPublicMembers",
   "publicExternalFunctions", "publicVariables"}

accessors(key, it) ==
  CASE key = "type" -> type(it)
    [] key = "natspec" -> natspec(it)
    [] key = "name" -> name(it)
    [] key = "visibility" -> visibility(it)
    [] key = "typeName" -> typeName(it)
    [] key = "stateMutability" -> stateMutability(it)
    [] key = "virtual" -> virtual(it)
    [] key = "withModifiers" -> withModifiers(it)
    [] key = "signature" -> signature(it)
    [] key = "params" -> params(it)
    [] key = "returns" -> returns(it)
    [] key = "functions" -> functions(it)
    [] key = "events" -> events(it)
    [] key = "modifiers" -> modifiers(it)
    [] key = "errors" -> errors(it)
    [] key = "variables" -> variables(it)
    [] key = "notTest" -> notTest(it)
    [] key = "hasPublicMembers" -> hasPublicMembers(it)
    [] key = "publicExternalFunctions" -> publicExternalFunctions(it)
    [] key = "publicVariables" -> publicVariables(it)

\* mapValues(accessors, fn => fn(item)): the record with the keys of accessors,
\* each holding its accessor applied to the item (an undefined result keeps
\* its key).
mapValues(it) == [k \in AccessorKeys |-> accessors(k, it)]

\* An object spread { ...a, ...b }: the keys of both, b's value where both have
\* the key.
spread(a, b) ==
  [k \in DOMAIN a \cup DOMAIN b |-> IF k \in DOMAIN b THEN b[k] ELSE a[k]]

\* A wrapWithAccessors that returns the accessor results without the item's
\* own fields.
wrapWithoutItem(it) == mapValues(it)

wrapWithAccessors(it) == spread(it, mapValues(it))

-----------------------------------------------------------------------------
(* The enumerated inputs: items as the compiler's AST holds them           *)

SeqsUpTo(S, n) == UNION {[1..k -> S] : k \in 0..n}

AddressType == Def(TypeNameNode(ElementaryTypeName, S_address, Def(S_address)))

Uint256Type == Def(TypeNameNode(ElementaryTypeName, S_uint256, Def(S_uint256)))

\* a user defined type whose type string was resolved, and one whose was not
ResolvedUserType == Def(TypeNameNode(UserDefinedTypeName, <<"I">>, Def(S_IERC20)))

UnresolvedUserType == Def(TypeNameNode(UserDefinedTypeName, <<"I">>, Undefined))

Param(nm, tn, typeString) ==
  Variable(nm, Def("internal"), Def("mutable"), FALSE, tn, typeString)

\* Parameters with a resolved type string ...
ResolvedParams ==
  {Param(S_to, AddressType, Def(S_address)),
   Param(S_amount, Uint256Type, Def(S_uint256)),
   Param(<<>>, Uint256Type, Def(S_uint256))}

\* ... and parameters lacking one: no typeName, or a typeName without typeString.
UnresolvedParams ==
  {Param(S_amount, Undefined, Def(S_uint256)),
   Param(S_to, UnresolvedUserType, Undefined)}

ParamPool == ResolvedParams \cup UnresolvedParams

ParamLists == SeqsUpTo(ParamPool, MaxParams)

DocPool ==
  {Undefined,
   Def(<<Tag("param", S_to, S_d1)>>),
   Def(<<Tag("notice", <<>>, S_d2), Tag("param", S_amount, S_d2),
         Tag("param", S_to, S_d1), Tag("param", S_to, S_d2)>>)}

\* kind and name of a function: only an ordinary function and a free
\* function carry a name.
KindNames ==
  {<<S_function, S_transfer>>, <<S_function, S_add>>, <<S_constructor, <<>>>>,
   <<S_fallback, <<>>>>, <<S_receive, <<>>>>, <<S_freeFunction, S_transfer>>}

Visibilities == {Def("public"), Def("external"), Def("internal"), Def("private"), Undefined}

StateMutabilities == {Def("pure"), Def("view"), Def("nonpayable"), Def("payable"), Undefined}

Mutabilities == {Def("mutable"), Def("immutable"), Def("constant"), Undefined}

ModifierLists ==
  {Undefined} \cup
  {Def([i \in 1..Len(names) |-> ModifierInvocation(names[i])]) : names \in SeqsUpTo({S_onlyOwner, S_lock}, MaxMods)}

FunctionItems ==
  {Function(kn[1], kn[2], Def("public"), Def("nonpayable"), FALSE, Def(<<>>), ps, <<>>, doc) :
     kn \in KindNames, ps \in ParamLists, doc \in DocPool}
  \cup
  {Function(S_function, S_add, Def("external"), Def("view"), FALSE, Def(<<>>), <<>>, rets, doc) :
     rets \in ParamLists, doc \in DocPool}
  \cup
  {Function(S_function, S_transfer, vis, mut, virt, mods, <<>>, <<>>, Undefined) :
     vis \in Visibilities, mut \in StateMutabilities, virt \in BOOLEAN,
     mods \in ModifierLists}

EventItems ==
  {Event(nm, ps, doc) : nm \in {S_transfer, S_Token}, ps \in ParamLists, doc \in DocPool}

ErrorItems == {Error(S_Token, ps, Undefined) : ps \in ParamLists}

ModifierItems == {Modifier(S_onlyOwner, ps, Undefined) : ps \in ParamLists}

VariableItems ==
  {Variable(S_amount, vis, mut, sv, tn, IF tn.def THEN tn.val.typeDescriptions.typeString ELSE Undefined) :
     vis \in Visibilities, mut \in Mutabilities, sv \in BOOLEAN,
     tn \in {AddressType, ResolvedUserType, UnresolvedUserType, Undefined}}

\* Contract names: up to MaxSegs segments, so that Test and Mock occur at the
\* start, at the end, in the middle, in another case, or not at all.
Segments == {S_Test, S_Mock, S_test, S_Token, S_able}

RECURSIVE concat(_)
concat(ss) == IF ss = <<>> THEN <<>> ELSE Head(ss) \o concat(Tail(ss))

ContractNames == {concat(ss) : ss \in SeqsUpTo(Segments, MaxSegs)} \ {<<>>}

\* The members a contract may hold: its variables are state variables.
MemberPool ==
  {Function(S_function, S_transfer, Def("public"), Def("nonpayable"), FALSE, Def(<<>>),
            <<Param(S_to, AddressType, Def(S_address))>>, <<>>, Undefined),
   Function(S_function, S_add, Def("internal"), Def("pure"), FALSE, Def(<<>>),
            <<Param(S_amount, Uint256Type, Def(S_uint256))>>,
            <<Param(<<>>, Uint256Type, Def(S_uint256))>>, Undefined),
   Function(S_receive, <<>>, Def("external"), Def("payable"), FALSE, Def(<<>>),
            <<>>, <<>>, Undefined),
   Function(S_function, S_lock, Def("private"), Def("nonpayable"), FALSE, Def(<<>>),
            <<>>, <<>>, Undefined),
   Event(S_transfer, <<Param(S_to, AddressType, Def(S_address))>>, Undefined),
   Error(S_Token, <<Param(S_amount, Uint256Type, Def(S_uint256))>>, Undefined),
   Modifier(S_onlyOwner, <<>>, Undefined),
   Variable(S_amount, Def("public"), Def("mutable"), TRUE, Uint256Type, Def(S_uint256)),
   Variable(S_to, Def("internal"), Def("immutable"), TRUE, AddressType, Def(S_address))}

ContractItems ==
  {Contract(nm, <<>>, Undefined) : nm \in ContractNames}
  \cup
  {Contract(S_Token, nodes, Undefined) : nodes \in SeqsUpTo(MemberPool, MaxMembers)}

Items ==
  ContractItems \cup FunctionItems \cup EventItems \cup ErrorItems
    \cup ModifierItems \cup VariableItems

\* The inputs of getParams called on its own.
FormalPool ==
  {Param(nm, Undefined, ts) : nm \in {<<"a">>, <<"b">>, <<>>}, ts \in {Def(S_address), Def(S_uint256)}}

FormalLists == {ParameterList(ps) : ps \in SeqsUpTo(FormalPool, MaxFormals)}

NatSpecEntries ==
  {[name |-> nm, description |-> d] : nm \in {<<"a">>, <<"A">>}, d \in {S_d1, S_d2}}

NatSpecs ==
  {[params |-> Undefined]} \cup
  {[params |-> Def(es)] : es \in SeqsUpTo(NatSpecEntries, MaxTags)}

-----------------------------------------------------------------------------
(* The state machine: an item is handed to one accessor, or to the         *)
(* decorator; the caller takes the result; the item is never written.      *)

NoCall == "none"

Init ==
  /\ item \in Items
  /\ called = NoCall
  /\ result = Undefined
  /\ formals = ParameterList(<<>>)
  /\ natspecArg = [params |-> Undefined]

\* getParams on its own arguments
InitGetParams ==
  /\ item = Contract(S_Token, <<>>, Undefined)
  /\ called = NoCall
  /\ result = Undefined
  /\ formals \in FormalLists
  /\ natspecArg \in NatSpecs

CallType ==
  /\ called = NoCall
  /\ called' = "type"
  /\ result' = type(item)
  /\ UNCHANGED <<item, formals, natspecArg>>

CallNatspec ==
  /\ called = NoCall
  /\ called' = "natspec"
  /\ result' = natspec(item)
  /\ UNCHANGED <<item, formals, natspecArg>>

CallName ==
  /\ called = NoCall
  /\ called' = "name"
  /\ result' = name(item)
  /\ UNCHANGED <<item, formals, natspecArg>>

CallVisibility ==
  /\ called = NoCall
  /\ called' = "visibility"
  /\ result' = visibility(item)
  /\ UNCHANGED <<item, formals, natspecArg>>

CallTypeName ==
  /\ called = NoCall
  /\ called' = "typeName"
  /\ result' = typeName(item)
  /\ UNCHANGED <<item, formals, natspecArg>>

CallStateMutability ==
  /\ called = NoCall
  /\ called' = "stateMutability"
  /\ result' = stateMutability(item)
  /\ UNCHANGED <<item, formals, natspecArg>>

CallVirtual ==
  /\ called = NoCall
  /\ called' = "virtual"
  /\ result' = virtual(item)
  /\ UNCHANGED <<item, formals, natspecArg>>

CallWithModifiers ==
  /\ called = NoCall
  /\ called' = "withModifiers"
  /\ result' = withModifiers(item)
  /\ UNCHANGED <<item, formals, natspecArg>>

CallSignature ==
  /\ called = NoCall
  /\ called' = "signature"
  /\ result' = signature(item)
  /\ UNCHANGED <<item, formals, natspecArg>>

CallParams ==
  /\ called = NoCall
  /\ called' = "params"
  /\ result' = params(item)
  /\ UNCHANGED <<item, formals, natspecArg>>

CallReturns ==
  /\ called = NoCall
  /\ called' = "returns"
  /\ result' = returns(item)
  /\ UNCHANGED <<item, formals, natspecArg>>

CallFunctions ==
  /\ called = NoCall
  /\ called' = "functions"
  /\ result' = functions(item)
  /\ UNCHANGED <<item, formals, natspecArg>>

CallEvents ==
  /\ called = NoCall
  /\ called' = "events"
  /\ result' = events(item)
  /\ UNCHANGED <<item, formals, natspecArg>>

CallModifiers ==
  /\ called = NoCall
  /\ called' = "modifiers"
  /\ result' = modifiers(item)
  /\ UNCHANGED <<item, formals, natspecArg>>

CallErrors ==
  /\ called = NoCall
  /\ called' = "errors"
  /\ result' = errors(item)
  /\ UNCHANGED <<item, formals, natspecArg>>

CallVariables ==
  /\ called = NoCall
  /\ called' = "variables"
  /\ result' = variables(item)
  /\ UNCHANGED <<item, formals, natspecArg>>

CallNotTest ==
  /\ called = NoCall
  /\ called' = "notTest"
  /\ result' = notTest(item)
  /\ UNCHANGED <<item, formals, natspecArg>>

CallHasPublicMembers ==
  /\ called = NoCall
  /\ called' = "hasPublicMembers"
  /\ result' = hasPublicMembers(item)
  /\ UNCHANGED <<item, formals, natspecArg>>

CallPublicExternalFunctions ==
  /\ called = NoCall
  /\ called' = "publicExternalFunctions"
  /\ result' = publicExternalFunctions(item)
  /\ UNCHANGED <<item, formals, natspecArg>>

CallPublicVariables ==
  /\ called = NoCall
  /\ called' = "publicVariables"
  /\ result' = publicVariables(item)
  /\ UNCHANGED <<item, formals, natspecArg>>

CallWrapWithAccessors ==
  /\ called = NoCall
  /\ called' = "wrapWithAccessors"
  /\ result' = Def(wrapWithAccessors(item))
  /\ UNCHANGED <<item, formals, natspecArg>>

CallGetParams ==
  /\ called = NoCall
  /\ called' = "getParams"
  /\ result' = Def(getParams(formals, natspecArg))
  /\ UNCHANGED <<item, formals, natspecArg>>

\* The caller has taken the result.
Return ==
  /\ called # NoCall
  /\ called' = NoCall
  /\ result' = Undefined
  /\ UNCHANGED <<item, formals, natspecArg>>

Next ==
  \/ CallType
  \/ CallNatspec
  \/ CallName
  \/ CallVisibility
  \/ CallTypeName
  \/ CallStateMutability
  \/ CallVirtual
  \/ CallWithModifiers
  \/ CallSignature
  \/ CallParams
  \/ CallReturns
  \/ CallFunctions
  \/ CallEvents
  \/ CallModifiers
  \/ CallErrors
  \/ CallVariables
  \/ CallNotTest
  \/ CallHasPublicMembers
  \/ CallPublicExternalFunctions
  \/ CallPublicVariables
  \/ CallWrapWithAccessors
  \/ Return

Spec == Init /\ [][Next]_vars

NextGetParams == CallGetParams \/ Return

SpecGetParams == InitGetParams /\ [][NextGetParams]_vars

-----------------------------------------------------------------------------
(* Notions the claims are stated with                                      *)

\* The nodes of the subtree of n in source order, n first: n, then each child
\* followed by that child's own children (parameters have none).
SubtreeInOrder(n) ==
  <<n>> \o concat([i \in 1..Len(Children(n)) |->
                     <<Children(n)[i]>> \o Children(Children(n)[i])])

OfType(nodes, nodeType) ==
  LET isIt(n) == n.nodeType = nodeType IN SelectSeq(nodes, isIt)

\* A parameter carries a resolved type string.
Resolved(a) ==
  /\ a.typeName.def
  /\ a.typeName.val.typeDescriptions.typeString.def

\* The type strings of a parameter list, "," between neighbours.
RECURSIVE TypesWithCommas(_)
TypesWithCommas(ps) ==
  IF ps = <<>> THEN <<>>
  ELSE IF Len(ps) = 1 THEN Head(ps).typeName.val.typeDescriptions.typeString.val
  ELSE Head(ps).typeName.val.typeDescriptions.typeString.val \o <<",">>
         \o TypesWithCommas(Tail(ps))

\* The display name of the spec: the kind of a function that has no
\* ordinary name, the declared name of everything else.
DisplayName(n) ==
  IF n.nodeType = FunctionDefinition /\ n.name = <<>> THEN n.kind ELSE n.name

\* s begins, or ends, with affix: s is affix followed by, or following, a rest.
HasAtBoundary(s, affix) ==
  \E k \in 0..Len(s) :
    \/ SubSeq(s, 1, k) = affix
    \/ SubSeq(s, k + 1, Len(s)) = affix

TestOrMockName(s) == HasAtBoundary(s, S_Test) \/ HasAtBoundary(s, S_Mock)

IsPublicStateVariable(n) ==
  /\ n.nodeType = VariableDeclaration
  /\ n.stateVariable
  /\ n.visibility = Def("public")

IsPublicOrExternalFunction(n) ==
  /\ n.nodeType = FunctionDefinition
  /\ n.visibility \in {Def("public"), Def("external")}

IsEvent(n) == n.nodeType = EventDefinition

-----------------------------------------------------------------------------
(* The claims                                                              *)

\* C1: wrapWithAccessors(n) returns a record whose keys are n's own fields
\* together with every key of the accessor registry, a key whose accessor
\* result is undefined included; under a registry key the value is the
\* accessor's result, under every other field of n it is n's value; and the
\* call leaves n as it was.
C1_WrapWithAccessors ==
  /\ [](called = "wrapWithAccessors" =>
          /\ DOMAIN result.val = DOMAIN item \cup AccessorKeys
          /\ \A k \in AccessorKeys : result.val[k] = accessors(k, item)
          /\ \A k \in DOMAIN item \ AccessorKeys : result.val[k] = item[k])
  /\ [][called' = "wrapWithAccessors" => item' = item]_vars

\* C1 witness: a contract with members is decorated: signature is a key with
\* an undefined value, name is overridden by the accessor, nodes is kept.
C1_Witness ==
  /\ called = "wrapWithAccessors"
  /\ item.nodeType = ContractDefinition
  /\ Len(item.nodes) > 0
  /\ "signature" \in DOMAIN result.val
  /\ result.val["signature"] = Undefined
  /\ result.val["name"] = Def(item.name)
  /\ result.val["nodes"] = item.nodes

\* C2 as claimed: for every node, hasPublicMembers is true iff the node's
\* subtree holds a public state variable, an event, or a public or external
\* function.
C2_Original ==
  called = "hasPublicMembers" =>
    (result.val <=>
       \E i \in 1..Len(SubtreeInOrder(item)) :
         LET n == SubtreeInOrder(item)[i]
         IN IsPublicStateVariable(n) \/ IsEvent(n) \/ IsPublicOrExternalFunction(n))

\* C2 as amended: for a Contract node, hasPublicMembers is true iff one of its
\* members (item.nodes) is a public state variable, or its subtree holds an
\* event, or its subtree holds a public or external function; for every
\* node that is not a Contract it is false.
C2_HasPublicMembers ==
  called = "hasPublicMembers" =>
    IF item.nodeType = ContractDefinition
    THEN result.val <=>
           \/ \E i \in 1..Len(item.nodes) : IsPublicStateVariable(item.nodes[i])
           \/ \E i \in 1..Len(SubtreeInOrder(item)) : IsEvent(SubtreeInOrder(item)[i])
           \/ \E i \in 1..Len(SubtreeInOrder(item)) :
                IsPublicOrExternalFunction(SubtreeInOrder(item)[i])
    ELSE result.val = FALSE

\* C2 witness: a contract whose only member is an event has public members.
C2_Witness ==
  /\ called = "hasPublicMembers"
  /\ item.nodeType = ContractDefinition
  /\ Len(item.nodes) = 1
  /\ IsEvent(item.nodes[1])
  /\ result.val = TRUE

\* C3: the name accessor returns a function's kind when the function has no
\* ordinary declared name and the declared name otherwise, for every function
\* kind; for every other variant it returns the declared name.
C3_Name ==
  called = "name" => result = Def(DisplayName(item))

\* C4: for a Function or Event whose parameters all have resolved type
\* strings, signature returns the node's name, "(", the type strings in
\* declaration order joined by "," and ")"; for every other variant it
\* returns undefined.
C4_Signature ==
  called = "signature" =>
    IF item.nodeType \in {FunctionDefinition, EventDefinition}
    THEN (\A i \in 1..Len(item.parameters.parameters) :
            Resolved(item.parameters.parameters[i]))
         => result = Def(DisplayName(item) \o <<"(">>
                           \o TypesWithCommas(item.parameters.parameters) \o <<")">>)
    ELSE result = Undefined

\* C5: signature applied to a Function or Event one of whose parameters lacks
\* a resolved type string does not return a string.
C5_SignatureFailsOnUnresolved ==
  (/\ called = "signature"
   /\ item.nodeType \in {FunctionDefinition, EventDefinition}
   /\ \E i \in 1..Len(item.parameters.parameters) :
        ~Resolved(item.parameters.parameters[i]))
  => ~result.def

\* C6 as claimed: functions, events, modifiers and errors return, in source
\* order, the declarations of their kind in the node's subtree; variables
\* returns, for any node, the state variables among the subtree's variable
\* declarations.
C6_Original ==
  /\ called = "functions" => result = Def(OfType(SubtreeInOrder(item), FunctionDefinition))
  /\ called = "events" => result = Def(OfType(SubtreeInOrder(item), EventDefinition))
  /\ called = "modifiers" => result = Def(OfType(SubtreeInOrder(item), ModifierDefinition))
  /\ called = "errors" => result = Def(OfType(SubtreeInOrder(item), ErrorDefinition))
  /\ called = "variables" =>
       result = Def(SelectSeq(OfType(SubtreeInOrder(item), VariableDeclaration),
                              isStateVariable))

\* C6 as amended: functions, events, modifiers and errors return, in source
\* order, the declarations of their kind in the node's subtree (the node
\* itself included); variables returns, for a Contract, the state variables
\* among the variable declarations that are the contract's members, in
\* order, and undefined for every node that is not a Contract.
C6_Collectors ==
  /\ called = "functions" => result = Def(OfType(SubtreeInOrder(item), FunctionDefinition))
  /\ called = "events" => result = Def(OfType(SubtreeInOrder(item), EventDefinition))
  /\ called = "modifiers" => result = Def(OfType(SubtreeInOrder(item), ModifierDefinition))
  /\ called = "errors" => result = Def(OfType(SubtreeInOrder(item), ErrorDefinition))
  /\ called = "variables" =>
       IF item.nodeType = ContractDefinition
       THEN result = Def(SelectSeq(OfType(item.nodes, VariableDeclaration), isStateVariable))
       ELSE result = Undefined

\* C6 witness: the functions of a contract with two function members, the
\* members' parameters left out.
C6_Witness ==
  /\ called = "functions"
  /\ item.nodeType = ContractDefinition
  /\ Len(item.nodes) = 2
  /\ item.nodes[1].nodeType = FunctionDefinition
  /\ item.nodes[2].nodeType = FunctionDefinition
  /\ item.nodes[1] # item.nodes[2]
  /\ Len(item.nodes[1].parameters.parameters) > 0
  /\ result = Def(item.nodes)

\* C7: for a Function, withModifiers returns the names of the attached
\* modifiers in order, joined with commas, when there is one, and undefined
\* when there is none (an empty modifier list included); for every other
\* variant it returns undefined.
C7_WithModifiers ==
  called = "withModifiers" =>
    IF /\ item.nodeType = FunctionDefinition
       /\ item.modifiers.def
       /\ Len(item.modifiers.val) > 0
    THEN /\ result.def
         /\ result.val = concat([i \in 1..Len(item.modifiers.val) |->
                                   (IF i = 1 THEN <<>> ELSE <<",", " ">>)
                                     \o item.modifiers.val[i].modifierName.name])
    ELSE result = Undefined

\* C8: getParams returns a list as long as the formal list and in its order;
\* entry i has the i-th parameter's name and type string, and as natspec the
\* description of the first NatSpec param entry of exactly that name, or
\* undefined when there is none or the record has no params; parameters of
\* the same name get the same description.
C8_GetParams ==
  called = "getParams" =>
    LET ps == formals.parameters
        r == result.val
        es == IF natspecArg.params.def THEN natspecArg.params.val ELSE <<>>
    IN /\ Len(r) = Len(ps)
       /\ \A i \in 1..Len(ps) :
            /\ r[i].name = ps[i].name
            /\ r[i].type = ps[i].typeDescriptions.typeString
            /\ IF \E j \in 1..Len(es) : es[j].name = ps[i].name
               THEN \E j \in 1..Len(es) :
                      /\ es[j].name = ps[i].name
                      /\ \A k \in 1..(j - 1) : es[k].name # ps[i].name
                      /\ r[i].natspec = Def(es[j].description)
               ELSE r[i].natspec = Undefined
       /\ \A i, j \in 1..Len(ps) : ps[i].name = ps[j].name => r[i].natspec = r[j].natspec

\* C8 witness: two formals of one name and two NatSpec entries of that name
\* with different descriptions: both formals get the first description.
C8_Witness ==
  /\ called = "getParams"
  /\ Len(formals.parameters) = 2
  /\ formals.parameters[1].name = formals.parameters[2].name
  /\ formals.parameters[1] # formals.parameters[2]
  /\ natspecArg.params.def
  /\ Len(natspecArg.params.val) = 2
  /\ natspecArg.params.val[1].name = formals.parameters[1].name
  /\ natspecArg.params.val[2].name = formals.parameters[1].name
  /\ natspecArg.params.val[1].description # natspecArg.params.val[2].description
  /\ result.val[1].natspec = Def(natspecArg.params.val[1].description)
  /\ result.val[2].natspec = result.val[1].natspec

\* C9: notTest is false iff the node is a Contract whose name starts or ends
\* with Test or Mock (case-sensitive); so it is false for MockToken and
\* TokenTest and true for TokenTestable and for every other variant.
C9_NotTest ==
  called = "notTest" =>
    /\ result.val = FALSE <=>
         (item.nodeType = ContractDefinition /\ TestOrMockName(item.name))
    /\ item.nodeType = ContractDefinition =>
         /\ item.name = S_Mock \o S_Token => result.val = FALSE
         /\ item.name = S_Token \o S_Test => result.val = FALSE
         /\ item.name = S_Token \o S_Test \o S_able => result.val = TRUE

\* C9 witness: TokenTestable is not a test contract.
C9_Witness ==
  /\ called = "notTest"
  /\ item.nodeType = ContractDefinition
  /\ item.name = S_Token \o S_Test \o S_able
  /\ result = Def(TRUE)

\* C10: stateMutability is undefined for a Function declared nonpayable and
\* for a Variable declared mutable, the declared value for any other
\* declared value, and undefined when the value is unset and for every
\* variant other than Function and Variable.
C10_StateMutability ==
  called = "stateMutability" =>
    IF item.nodeType = FunctionDefinition
    THEN result = (IF item.stateMutability \in {Undefined, Def("nonpayable")}
                   THEN Undefined ELSE item.stateMutability)
    ELSE IF item.nodeType = VariableDeclaration
    THEN result = (IF item.mutability \in {Undefined, Def("mutable")}
                   THEN Undefined ELSE item.mutability)
    ELSE result = Undefined

\* C10 witness: a view function reports view.
C10_Witness ==
  /\ called = "stateMutability"
  /\ item.nodeType = FunctionDefinition
  /\ item.stateMutability = Def("view")
  /\ result = Def("view")

====
